---- MODULE Spec2Model ----
(***************************************************************************)
(* Weekly sales forecasting: the Streamlit web app (src/app.py) and the    *)
(* Tkinter desktop GUI (src/sales.py).  Both load three CSV tables, merge  *)
(* them, and on request filter one (Store, Dept), resample to weekly       *)
(* sums, validate the length and fit / forecast with Holt-Winters.         *)
(*                                                                         *)
(* Dates are day numbers counted from Sunday 2010-01-31 (day 0), so day 5  *)
(* is Friday 2010-02-05 and every multiple of 7 is a Sunday.  Weekly_Sales *)
(* are integers.  The Holt-Winters library (statsmodels) is outside the    *)
(* repository: whether a fit raises is a choice of the environment, and a  *)
(* forecast is kept as its date index only.                                *)
(***************************************************************************)
EXTENDS Integers, Sequences, FiniteSets, TLC

VARIABLES
    program,            \* "app" (src/app.py) or "gui" (src/sales.py)
    fs,                 \* the three CSV files: status and rows of each
    pc,                 \* "start", "ready" or "stopped"
    data,               \* the merged dataset: None or Some(rows)
    loadError,          \* the error reported by load_data, or "none"
    selected_store,     \* app.py sidebar widgets
    selected_dept,
    future_periods,
    seasonal_periods,
    store_combo,        \* sales.py widgets (texts are sequences of code points)
    dept_combo,
    dept_values,
    weeks_entry,
    outcome             \* what the last event handler produced

vars == <<program, fs, pc, data, loadError, selected_store, selected_dept,
          future_periods, seasonal_periods, store_combo, dept_combo,
          dept_values, weeks_entry, outcome>>

appWidgets == <<selected_store, selected_dept, future_periods, seasonal_periods>>
guiWidgets == <<store_combo, dept_combo, dept_values, weeks_entry>>

-----------------------------------------------------------------------------
(* Bounds of the model *)

MaxRows == 2            \* rows of train.csv

StoreIds == {1, 2}
DeptIds == {1, 2}
\* week 1 (Fri, Sun), week 2 (Mon), week 20 (Fri), week 104 (Fri)
Dates == {5, 7, 8, 138, 726}
SalesValues == {10, 25}

-----------------------------------------------------------------------------
(* Optional values and small helpers *)

None == <<>>
Some(x) == <<x>>
Get(o) == o[1]

Max2(a, b) == IF a >= b THEN a ELSE b

SetMin(S) == CHOOSE x \in S : \A y \in S : x <= y
SetMax(S) == CHOOSE x \in S : \A y \in S : x >= y

RECURSIVE SetToSortedSeq(_)
SetToSortedSeq(S) ==
    IF S = {} THEN <<>>
    ELSE LET m == SetMin(S) IN <<m>> \o SetToSortedSeq(S \ {m})

RECURSIVE SumSales(_)
SumSales(rows) ==
    IF rows = <<>> THEN 0
    ELSE Head(rows).Weekly_Sales + SumSales(Tail(rows))

\* row order of sort_values: by (Store, Dept, Date) or by Date alone
RowLeq(cols, a, b) ==
    IF cols = "Store,Dept,Date"
    THEN \/ a.Store < b.Store
         \/ a.Store = b.Store /\ a.Dept < b.Dept
         \/ a.Store = b.Store /\ a.Dept = b.Dept /\ a.Date <= b.Date
    ELSE a.Date <= b.Date

\* stable insertion of r into an already sorted sequence
RECURSIVE InsertSorted(_, _, _)
InsertSorted(r, s, cols) ==
    IF s = <<>> THEN <<r>>
    ELSE IF RowLeq(cols, s[Len(s)], r) THEN Append(s, r)
    ELSE Append(InsertSorted(r, SubSeq(s, 1, Len(s) - 1), cols), s[Len(s)])

RECURSIVE sort_values(_, _)
sort_values(s, cols) ==
    IF s = <<>> THEN <<>>
    ELSE InsertSorted(s[Len(s)], sort_values(SubSeq(s, 1, Len(s) - 1), cols), cols)

RECURSIVE Concat(_)
Concat(ss) == IF ss = <<>> THEN <<>> ELSE Head(ss) \o Concat(Tail(ss))

-----------------------------------------------------------------------------
(* load_data: read, merge, sort *)

\* train.merge(features, on=[Store, Date, IsHoliday], how="left")
merge_features(train, features) ==
    LET joined(r) ==
            LET m == SelectSeq(features,
                        LAMBDA f : f.Store = r.Store /\ f.Date = r.Date
                                   /\ f.IsHoliday = r.IsHoliday)
            IN IF m = <<>>
               THEN <<[Store |-> r.Store, Dept |-> r.Dept, Date |-> r.Date,
                       Weekly_Sales |-> r.Weekly_Sales, IsHoliday |-> r.IsHoliday,
                       Temperature |-> None]>>
               ELSE [i \in 1..Len(m) |->
                      [Store |-> r.Store, Dept |-> r.Dept, Date |-> r.Date,
                       Weekly_Sales |-> r.Weekly_Sales, IsHoliday |-> r.IsHoliday,
                       Temperature |-> Some(m[i].Temperature)]]
    IN Concat([i \in 1..Len(train) |-> joined(train[i])])

\* data.merge(stores, on="Store", how="left")
merge_stores(rows, stores) ==
    LET joined(r) ==
            LET m == SelectSeq(stores, LAMBDA s : s.Store = r.Store)
            IN IF m = <<>>
               THEN <<[Store |-> r.Store, Dept |-> r.Dept, Date |-> r.Date,
                       Weekly_Sales |-> r.Weekly_Sales, IsHoliday |-> r.IsHoliday,
                       Temperature |-> r.Temperature,
                       Type |-> None, Size |-> None]>>
               ELSE [i \in 1..Len(m) |->
                      [Store |-> r.Store, Dept |-> r.Dept, Date |-> r.Date,
                       Weekly_Sales |-> r.Weekly_Sales, IsHoliday |-> r.IsHoliday,
                       Temperature |-> r.Temperature,
                       Type |-> Some(m[i].Type), Size |-> Some(m[i].Size)]]
    IN Concat([i \in 1..Len(rows) |-> joined(rows[i])])

merged(f) ==
    sort_values(merge_stores(merge_features(f.train.rows, f.features.rows),
                             f.stores.rows), "Store,Dept,Date")

AllReadable(f) ==
    f.train.status = "ok" /\ f.stores.status = "ok" /\ f.features.status = "ok"

\* a variant that falls back to the sales table alone when a side table is missing
load_data_partial(f) ==
    IF f.train.status = "ok"
    THEN [data |-> Some(sort_values(
                     merge_stores(merge_features(f.train.rows,
                        IF f.features.status = "ok" THEN f.features.rows ELSE <<>>),
                        IF f.stores.status = "ok" THEN f.stores.rows ELSE <<>>),
                     "Store,Dept,Date")),
          error |-> "none"]
    ELSE [data |-> None, error |-> "Missing data files"]

\* app.py load_data: FileNotFoundError -> st.error, data is None
load_data_app(f) ==
    IF AllReadable(f)
    THEN [data |-> Some(merged(f)), error |-> "none"]
    ELSE [data |-> None, error |-> "Missing data files"]

\* sales.py load_data: FileNotFoundError -> messagebox, re-raised: no data
load_data_gui(f) ==
    IF AllReadable(f)
    THEN [data |-> Some(merged(f)), error |-> "none"]
    ELSE [data |-> None, error |-> "File error"]

-----------------------------------------------------------------------------
(* Texts: Tk widget contents and formatted dates are sequences of          *)
(* characters, a character being its Unicode code point ("0" is 48)        *)

\* the digit zero of every Unicode decimal digit block; the nine code points
\* after each are its digits one to nine
DecimalZeros ==
    {
     48, 1632, 1776, 1984, 2406, 2534, 2662, 2790, 2918, 3046, 3174, 3302,
     3430, 3558, 3664, 3792, 3872, 4160, 4240, 6112, 6160, 6470, 6608,
     6784, 6800, 6992, 7088, 7232, 7248, 42528, 43216, 43264, 43472, 43504,
     43600, 44016, 65296, 66720, 68912, 69734, 69872, 69942, 70096, 70384,
     70736, 70864, 71248, 71360, 71472, 71904, 72016, 72784, 73040, 73120,
     92768, 92864, 93008, 120782, 120792, 120802, 120812, 120822, 123200,
     123632, 125264, 130032}

\* the 660 characters int() reads as a decimal digit
Digits == UNION {z..(z + 9) : z \in DecimalZeros}
DigitVal(c) == c - (CHOOSE z \in DecimalZeros : z <= c /\ c <= z + 9)

RECURSIVE DigitsValue(_)
DigitsValue(ds) ==
    IF ds = <<>> THEN 0
    ELSE 10 * DigitsValue(SubSeq(ds, 1, Len(ds) - 1)) + DigitVal(ds[Len(ds)])

\* the characters int() ignores around a number: tab, newline, vertical tab,
\* form feed, carriage return, blank, and the Unicode spaces
Whitespace ==
    (9..13) \cup {32, 133, 160, 5760} \cup (8192..8202)
        \cup {8232, 8233, 8239, 8287, 12288}

RECURSIVE int_lstrip(_)
int_lstrip(t) ==
    IF t # <<>> /\ Head(t) \in Whitespace THEN int_lstrip(Tail(t)) ELSE t

RECURSIVE int_rstrip(_)
int_rstrip(t) ==
    IF t # <<>> /\ t[Len(t)] \in Whitespace
    THEN int_rstrip(SubSeq(t, 1, Len(t) - 1))
    ELSE t

\* Python int(text): surrounding whitespace, an optional ASCII sign (43, 45),
\* decimal digits with single underscores (95) between them, at most 4300
\* digits; anything else raises ValueError (ok = FALSE)
py_int(text) ==
    LET t == int_rstrip(int_lstrip(text))
        signed == t # <<>> /\ Head(t) \in {43, 45}
        body == IF signed THEN Tail(t) ELSE t
        digits == SelectSeq(body, LAMBDA c : c # 95)
        wellFormed ==
            /\ body # <<>>
            /\ \A i \in DOMAIN body : body[i] \in Digits \cup {95}
            /\ body[1] # 95
            /\ body[Len(body)] # 95
            /\ \A i \in 1..(Len(body) - 1) : ~(body[i] = 95 /\ body[i + 1] = 95)
            /\ Len(digits) <= 4300
    IN IF wellFormed
       THEN [ok |-> TRUE,
             value |-> IF signed /\ Head(t) = 45
                       THEN 0 - DigitsValue(digits) ELSE DigitsValue(digits)]
       ELSE [ok |-> FALSE, value |-> 0]

\* str(n), the text Tk shows for an integer list value
RECURSIVE NatText(_)
NatText(n) ==
    IF n < 10 THEN <<48 + n>>
    ELSE Append(NatText(n \div 10), 48 + (n % 10))

py_str(n) == IF n < 0 THEN <<45>> \o NatText(0 - n) ELSE NatText(n)

IsLeap(y) == (y % 4 = 0 /\ y % 100 # 0) \/ y % 400 = 0

DaysInMonth(y, m) ==
    IF m = 2 THEN (IF IsLeap(y) THEN 29 ELSE 28)
    ELSE IF m \in {4, 6, 9, 11} THEN 30 ELSE 31

\* calendar date of "day d of month m of year y", d possibly past the month's end
RECURSIVE Civil(_, _, _)
Civil(y, m, d) ==
    IF d <= DaysInMonth(y, m) THEN <<y, m, d>>
    ELSE IF m = 12 THEN Civil(y + 1, 1, d - 31)
    ELSE Civil(y, m + 1, d - DaysInMonth(y, m))

Pad2(n) == IF n < 10 THEN <<48>> \o NatText(n) ELSE NatText(n)

\* dt.strftime("%Y-%m-%d") of a day number (day 0 is 2010-01-31)
strftime(day) ==
    LET c == Civil(2010, 1, 31 + day)
    IN NatText(c[1]) \o <<45>> \o Pad2(c[2]) \o <<45>> \o Pad2(c[3])

-----------------------------------------------------------------------------
(* Filtering and weekly resampling *)

\* data[(data["Store"] == store_id) & (data["Dept"] == dept_id)]
filter_rows(rows, store_id, dept_id) ==
    SelectSeq(rows, LAMBDA r : r.Store = store_id /\ r.Dept = dept_id)

\* label of the "W" (W-SUN) bin of a day: the Sunday on or after it
WeekLabel(day) == ((day + 6) \div 7) * 7

\* variant: each bin keeps its last value instead of the sum
resample_W_last(rows) ==
    LET labels == {WeekLabel(rows[i].Date) : i \in DOMAIN rows}
        first == SetMin(labels)
        n == ((SetMax(labels) - first) \div 7) + 1
    IN [k \in 1..n |->
          LET bin == SelectSeq(rows,
                         LAMBDA r : WeekLabel(r.Date) = first + 7 * (k - 1))
          IN [Date |-> first + 7 * (k - 1),
              Weekly_Sales |-> IF bin = <<>> THEN 0 ELSE bin[Len(bin)].Weekly_Sales]]

\* series.resample("W").sum(): one entry per weekly bin from the first
\* observed bin to the last, an empty bin summing to 0 (never NaN)
resample_W_sum(rows) ==
    LET labels == {WeekLabel(rows[i].Date) : i \in DOMAIN rows}
        first == SetMin(labels)
        n == ((SetMax(labels) - first) \div 7) + 1
    IN [k \in 1..n |->
          [Date |-> first + 7 * (k - 1),
           Weekly_Sales |->
              SumSales(SelectSeq(rows,
                  LAMBDA r : WeekLabel(r.Date) = first + 7 * (k - 1)))]]

\* sd.groupby("Date")["Weekly_Sales"].sum().sort_index()
groupby_Date_sum(rows) ==
    LET days == SetToSortedSeq({rows[i].Date : i \in DOMAIN rows})
    IN [k \in 1..Len(days) |->
          [Date |-> days[k],
           Weekly_Sales |-> SumSales(SelectSeq(rows, LAMBDA r : r.Date = days[k]))]]

\* app.py lines 67-74: sort by Date, resample weekly, dropna (which removes
\* nothing: the sums are numbers)
weekly_series_app(sd) == resample_W_sum(sort_values(sd, "Date"))

\* sales.py lines 77-80
weekly_series_gui(sd) == resample_W_sum(groupby_Date_sum(sd))

-----------------------------------------------------------------------------
(* The Holt-Winters library as the two programs use it *)

\* results.forecast(steps): steps dates continuing the weekly index; with
\* steps < 1 the library either raises or returns an empty series
hw_forecast(ts, steps, lib) ==
    IF steps >= 1
    THEN [raised |-> FALSE,
          index |-> [k \in 1..steps |-> ts[Len(ts)].Date + 7 * k]]
    ELSE [raised |-> lib.forecast0 = "raise", index |-> <<>>]

Stages == <<"filter", "resample", "validate", "fit", "forecast">>

-----------------------------------------------------------------------------
(* app.py: generate_forecast *)

SliderMin == 1          \* st.slider("Future Weeks to Forecast", min_value=1, ...)
SliderMax == 104
SliderDefault == 30
SeasonalMin == 1        \* st.number_input("Seasonal Periods", min_value=1, value=52)
SeasonalDefault == 52

\* the returned tuple (ts, future_forecast, forecast_df, message), with the
\* list of pipeline stages the call went through
Ret(ts, ff, df, msg, stages) ==
    [ts |-> ts, future_forecast |-> ff, forecast_df |-> df,
     message |-> msg, stages |-> stages]

\* variant: an absent key yields an empty but successful result
no_data_result_empty_success(store_id, dept_id) ==
    Ret(Some(<<>>), Some(<<>>), Some(<<>>),
        [kind |-> "Success", store_id |-> store_id, dept_id |-> dept_id],
        <<"filter">>)

\* line 65
no_data_result(store_id, dept_id) ==
    Ret(None, None, None,
        [kind |-> "NoData", store_id |-> store_id, dept_id |-> dept_id],
        <<"filter">>)

\* line 77
min_points(sp) == Max2(2 * sp, sp + 5)

\* variant: the error carries the resampled series
insufficient_result_with_ts(ts, sp) ==
    Ret(Some(ts), None, None,
        [kind |-> "Insufficient", have |-> Len(ts), need |-> 2 * sp,
         seasonal_periods |-> sp],
        <<"filter", "resample", "validate">>)

\* lines 78-82: "Have {len(ts)} weekly points; need at least {2 * seasonal_periods}"
insufficient_result(ts, sp) ==
    Ret(None, None, None,
        [kind |-> "Insufficient", have |-> Len(ts), need |-> 2 * sp,
         seasonal_periods |-> sp],
        <<"filter", "resample", "validate">>)

\* variant: one step too many
app_forecast_one_more(ts, fp, lib) == hw_forecast(ts, fp + 1, lib)

\* line 94
app_forecast(ts, fp, lib) == hw_forecast(ts, fp, lib)

\* lines 97-99
forecast_table(index) == [k \in DOMAIN index |-> [Date |-> strftime(index[k])]]

\* variant: a failed fit is swallowed and the forecast is computed anyway
fit_and_forecast_after_failed_fit(ts, store_id, dept_id, fp, sp, lib) ==
    LET f == app_forecast(ts, fp, lib)
    IN Ret(Some(ts), Some(f.index), Some(forecast_table(f.index)),
           [kind |-> "Success", future_periods |-> fp,
            store_id |-> store_id, dept_id |-> dept_id],
           <<"filter", "resample", "validate", "fit", "forecast">>)

\* lines 85-105: the try block and its except
fit_and_forecast(ts, store_id, dept_id, fp, sp, lib) ==
    IF lib.fit = "raise"
    THEN Ret(None, None, None, [kind |-> "FitError"],
             <<"filter", "resample", "validate", "fit">>)
    ELSE LET f == app_forecast(ts, fp, lib)
         IN IF f.raised
            THEN Ret(None, None, None, [kind |-> "FitError"],
                     <<"filter", "resample", "validate", "fit", "forecast">>)
            ELSE Ret(Some(ts), Some(f.index), Some(forecast_table(f.index)),
                     [kind |-> "Success", future_periods |-> fp,
                      store_id |-> store_id, dept_id |-> dept_id],
                     <<"filter", "resample", "validate", "fit", "forecast">>)

generate_forecast(rows, store_id, dept_id, fp, sp, lib) ==
    LET sd == filter_rows(rows, store_id, dept_id)
    IN IF sd = <<>> THEN no_data_result(store_id, dept_id)
       ELSE LET ts == weekly_series_app(sd)
            IN IF Len(ts) < min_points(sp) THEN insufficient_result(ts, sp)
               ELSE fit_and_forecast(ts, store_id, dept_id, fp, sp, lib)

\* lines 116-119
app_display(ret) == IF ret.ts = None THEN "error" ELSE "success"

-----------------------------------------------------------------------------
(* sales.py: run_forecast and on_store_change *)

GuiMinPoints == 20      \* if len(ts) < 20
GuiSeasonalPeriods == 52
WeeksDefault == <<51, 48>>       \* "30"

\* what one click produced: the dialog shown ("plot" for the figure), the
\* series involved and the stages the handler went through
GuiRet(dialog, text, ts, ff, stages) ==
    [dialog |-> dialog, text |-> text, ts |-> ts, future_forecast |-> ff,
     seasonal_periods |-> GuiSeasonalPeriods, stages |-> stages]

\* variant: the weeks text must be an integer, but its sign is not checked
run_forecast_any_integer_weeks(rows, store_val, dept_val, weeks_val, lib) ==
    IF store_val = <<>> \/ dept_val = <<>>
    THEN GuiRet("Input error", "Please select both Store and Department.",
                None, None, <<>>)
    ELSE IF ~py_int(store_val).ok \/ ~py_int(dept_val).ok
    THEN GuiRet("Input error", "Store and Dept must be numbers.", None, None, <<>>)
    ELSE IF ~py_int(weeks_val).ok
    THEN GuiRet("Input error", "Weeks to forecast must be a positive integer.",
                None, None, <<>>)
    ELSE
      LET sd == filter_rows(rows, py_int(store_val).value, py_int(dept_val).value)
      IN IF sd = <<>>
         THEN GuiRet("No data", "No rows for this Store/Dept combination.",
                     None, None, <<"filter">>)
         ELSE
           LET ts == weekly_series_gui(sd)
           IN IF Len(ts) < GuiMinPoints
              THEN GuiRet("Not enough data",
                          "Need at least 20 data points for forecasting.",
                          Some(ts), None, <<"filter", "resample", "validate">>)
              ELSE IF lib.fit = "raise"
              THEN GuiRet("Model error", "Error fitting model", Some(ts), None,
                          <<"filter", "resample", "validate", "fit">>)
              ELSE GuiRet("plot", "Week Forecast", Some(ts),
                          Some(hw_forecast(ts, py_int(weeks_val).value, lib).index),
                          <<"filter", "resample", "validate", "fit", "forecast">>)

\* lines 42-117: the Run Forecast handler
run_forecast(rows, store_val, dept_val, weeks_val, lib) ==
    IF store_val = <<>> \/ dept_val = <<>>
    THEN GuiRet("Input error", "Please select both Store and Department.",
                None, None, <<>>)
    ELSE IF ~py_int(store_val).ok \/ ~py_int(dept_val).ok
    THEN GuiRet("Input error", "Store and Dept must be numbers.", None, None, <<>>)
    ELSE IF ~py_int(weeks_val).ok \/ py_int(weeks_val).value <= 0
    THEN GuiRet("Input error", "Weeks to forecast must be a positive integer.",
                None, None, <<>>)
    ELSE
      LET sd == filter_rows(rows, py_int(store_val).value, py_int(dept_val).value)
      IN IF sd = <<>>
         THEN GuiRet("No data", "No rows for this Store/Dept combination.",
                     None, None, <<"filter">>)
         ELSE
           LET ts == weekly_series_gui(sd)
           IN IF Len(ts) < GuiMinPoints
              THEN GuiRet("Not enough data",
                          "Need at least 20 data points for forecasting.",
                          Some(ts), None, <<"filter", "resample", "validate">>)
              ELSE IF lib.fit = "raise"
              THEN GuiRet("Model error", "Error fitting model", Some(ts), None,
                          <<"filter", "resample", "validate", "fit">>)
              ELSE GuiRet("plot", "Week Forecast", Some(ts),
                          Some(hw_forecast(ts, py_int(weeks_val).value, lib).index),
                          <<"filter", "resample", "validate", "fit", "forecast">>)

\* sorted(data[data["Store"] == sid]["Dept"].unique())
depts_of(rows, sid) ==
    SetToSortedSeq({rows[i].Dept : i \in {j \in DOMAIN rows : rows[j].Store = sid}})

\* sorted(data["Store"].unique()), sorted(data["Dept"].unique())
unique_sorted_stores(rows) == SetToSortedSeq({rows[i].Store : i \in DOMAIN rows})
unique_sorted_depts(rows) == SetToSortedSeq({rows[i].Dept : i \in DOMAIN rows})

\* variant: the list is refreshed but the selection is left alone
on_store_change_keeps_selection(rows, store_val, values, current) ==
    IF store_val = <<>> \/ ~py_int(store_val).ok
    THEN [values |-> values, current |-> current]
    ELSE [values |-> depts_of(rows, py_int(store_val).value), current |-> current]

\* the new (dept_combo["values"], dept_combo.get()) after a store selection
on_store_change(rows, store_val, values, current) ==
    IF store_val = <<>> \/ ~py_int(store_val).ok
    THEN [values |-> values, current |-> current]
    ELSE LET depts == depts_of(rows, py_int(store_val).value)
         IN [values |-> depts,
             current |-> IF depts # <<>> THEN py_str(depts[1]) ELSE current]

-----------------------------------------------------------------------------
(* Initial states: the files on disk and the program that is started *)

\* store 1 sells in both departments, store 2 in department 2 only
TrainRows ==
    {r \in [Store : StoreIds, Dept : DeptIds, Date : Dates,
            Weekly_Sales : SalesValues, IsHoliday : {FALSE}] :
        r.Store = 2 => r.Dept = 2}

\* the order of the rows in train.csv: chronological
FileOrderLeq(a, b) ==
    \/ a.Date < b.Date
    \/ a.Date = b.Date /\ a.Store < b.Store
    \/ a.Date = b.Date /\ a.Store = b.Store /\ a.Dept < b.Dept
    \/ a.Date = b.Date /\ a.Store = b.Store /\ a.Dept = b.Dept
       /\ a.Weekly_Sales <= b.Weekly_Sales

TrainTables ==
    UNION {{t \in [1..n -> TrainRows] :
               \A i \in 1..(n - 1) : FileOrderLeq(t[i], t[i + 1])} : n \in 0..MaxRows}

\* features.csv: a duplicated key and a holiday mismatch
FeatureTables ==
    {<<[Store |-> 1, Date |-> 5, IsHoliday |-> FALSE, Temperature |-> 42],
       [Store |-> 1, Date |-> 5, IsHoliday |-> FALSE, Temperature |-> 43],
       [Store |-> 2, Date |-> 8, IsHoliday |-> TRUE, Temperature |-> 50]>>}

StoresTables == {<<[Store |-> 1, Type |-> "A", Size |-> 151315]>>}

Files(tables) ==
    {[status |-> "ok", rows |-> t] : t \in tables}
        \cup {[status |-> "missing", rows |-> <<>>]}

NoOutcome == [called |-> FALSE]

InitCommon ==
    /\ fs \in [train : Files(TrainTables), stores : Files(StoresTables),
               features : Files(FeatureTables)]
    /\ pc = "start"
    /\ data = None
    /\ loadError = "none"
    /\ selected_store = None
    /\ selected_dept = None
    /\ future_periods = SliderDefault
    /\ seasonal_periods = SeasonalDefault
    /\ store_combo = <<>>
    /\ dept_combo = <<>>
    /\ dept_values = <<>>
    /\ weeks_entry = WeeksDefault
    /\ outcome = NoOutcome

Init == program \in {"app", "gui"} /\ InitCommon

-----------------------------------------------------------------------------
(* app.py: the script run and the sidebar events *)

SliderChoices == {h \in {1, 2, 30} : SliderMin <= h /\ h <= SliderMax}
SeasonalChoices == {m \in {1, 10, 52} : SeasonalMin <= m}
FitOutcomes == {"ok", "raise"}

\* what the library did in a call: "unused" when the call never reached the fit
FitSeen(stages, fit) ==
    IF \E i \in DOMAIN stages : stages[i] = "fit" THEN fit ELSE "unused"

FirstOrNone(seq) == IF seq = <<>> THEN None ELSE Some(seq[1])
Arg(o) == IF o = None THEN None ELSE Get(o)

\* lines 35-52: load, and if data is not None build the sidebar
AppLoad ==
    /\ program = "app"
    /\ pc = "start"
    /\ LET r == load_data_app(fs)
       IN /\ data' = r.data
          /\ loadError' = r.error
          /\ IF r.data = None
             THEN pc' = "stopped" /\ UNCHANGED <<selected_store, selected_dept>>
             ELSE /\ pc' = "ready"
                  /\ selected_store' = FirstOrNone(unique_sorted_stores(Get(r.data)))
                  /\ selected_dept' = FirstOrNone(unique_sorted_depts(Get(r.data)))
    /\ UNCHANGED <<program, fs, future_periods, seasonal_periods, guiWidgets, outcome>>

\* a widget change reruns the script with run_button False: nothing is shown
AppSelectStore ==
    /\ program = "app" /\ pc = "ready"
    /\ \E s \in {Get(data)[i].Store : i \in DOMAIN Get(data)} :
          selected_store' = Some(s)
    /\ outcome' = NoOutcome
    /\ UNCHANGED <<program, fs, pc, data, loadError, selected_dept,
                   future_periods, seasonal_periods, guiWidgets>>

AppSelectDept ==
    /\ program = "app" /\ pc = "ready"
    /\ \E d \in {Get(data)[i].Dept : i \in DOMAIN Get(data)} :
          selected_dept' = Some(d)
    /\ outcome' = NoOutcome
    /\ UNCHANGED <<program, fs, pc, data, loadError, selected_store,
                   future_periods, seasonal_periods, guiWidgets>>

AppSetFuturePeriods ==
    /\ program = "app" /\ pc = "ready"
    /\ \E h \in SliderChoices : future_periods' = h
    /\ outcome' = NoOutcome
    /\ UNCHANGED <<program, fs, pc, data, loadError, selected_store,
                   selected_dept, seasonal_periods, guiWidgets>>

AppSetSeasonalPeriods ==
    /\ program = "app" /\ pc = "ready"
    /\ \E m \in SeasonalChoices : seasonal_periods' = m
    /\ outcome' = NoOutcome
    /\ UNCHANGED <<program, fs, pc, data, loadError, selected_store,
                   selected_dept, future_periods, guiWidgets>>

\* lines 109-119: the button reruns the script with run_button True
AppGenerate ==
    /\ program = "app" /\ pc = "ready"
    /\ \E fit \in FitOutcomes :
          LET ret == generate_forecast(Get(data), Arg(selected_store),
                         Arg(selected_dept), future_periods, seasonal_periods,
                         [fit |-> fit, forecast0 |-> "raise"])
          IN outcome' = [called |-> TRUE,
                         req |-> [store_id |-> Arg(selected_store),
                                  dept_id |-> Arg(selected_dept),
                                  future_periods |-> future_periods,
                                  seasonal_periods |-> seasonal_periods],
                         ret |-> ret,
                         fit |-> FitSeen(ret.stages, fit),
                         display |-> app_display(ret)]
    /\ UNCHANGED <<program, fs, pc, data, loadError, appWidgets, guiWidgets>>

-----------------------------------------------------------------------------
(* sales.py: start-up and the window's events *)

\* "30", "", "x", "0", "-2", and a no-break space, an Arabic-Indic two and
\* a line end, which int() reads as 2
WeeksTexts == {WeeksDefault, <<>>, <<120>>, <<48>>, <<45, 50>>, <<160, 1634, 10>>}

\* lines 33-36 and 142-170: load, build the window, pre-select the first store
GuiLoad ==
    /\ program = "gui"
    /\ pc = "start"
    /\ LET r == load_data_gui(fs)
       IN /\ data' = r.data
          /\ loadError' = r.error
          /\ IF r.data = None
             THEN pc' = "stopped" /\ UNCHANGED <<store_combo, dept_combo, dept_values>>
             ELSE LET store_ids == unique_sorted_stores(Get(r.data))
                  IN /\ pc' = "ready"
                     /\ IF store_ids = <<>>
                        THEN UNCHANGED <<store_combo, dept_combo, dept_values>>
                        ELSE LET c == on_store_change(Get(r.data),
                                          py_str(store_ids[1]), <<>>, <<>>)
                             IN /\ store_combo' = py_str(store_ids[1])
                                /\ dept_values' = c.values
                                /\ dept_combo' = c.current
    /\ UNCHANGED <<program, fs, appWidgets, weeks_entry, outcome>>

\* the user picks a store from the read-only list: <<ComboboxSelected>>
GuiSelectStore ==
    /\ program = "gui" /\ pc = "ready"
    /\ \E s \in {Get(data)[i].Store : i \in DOMAIN Get(data)} :
          LET c == on_store_change(Get(data), py_str(s), dept_values, dept_combo)
          IN /\ store_combo' = py_str(s)
             /\ dept_values' = c.values
             /\ dept_combo' = c.current
    /\ outcome' = NoOutcome
    /\ UNCHANGED <<program, fs, pc, data, loadError, appWidgets, weeks_entry>>

\* the user picks a department from the read-only list
GuiSelectDept ==
    /\ program = "gui" /\ pc = "ready"
    /\ \E k \in DOMAIN dept_values : dept_combo' = py_str(dept_values[k])
    /\ outcome' = NoOutcome
    /\ UNCHANGED <<program, fs, pc, data, loadError, appWidgets, store_combo,
                   dept_values, weeks_entry>>

\* the user edits the free-text weeks entry
GuiTypeWeeks ==
    /\ program = "gui" /\ pc = "ready"
    /\ \E t \in WeeksTexts : weeks_entry' = t
    /\ outcome' = NoOutcome
    /\ UNCHANGED <<program, fs, pc, data, loadError, appWidgets, store_combo,
                   dept_combo, dept_values>>

\* the Run Forecast button
GuiRunForecast ==
    /\ program = "gui" /\ pc = "ready"
    /\ \E fit \in FitOutcomes :
          LET ret == run_forecast(Get(data), store_combo, dept_combo,
                         weeks_entry, [fit |-> fit, forecast0 |-> "raise"])
          IN outcome' = [called |-> TRUE,
                         req |-> [store_val |-> store_combo,
                                  dept_val |-> dept_combo,
                                  weeks_val |-> weeks_entry],
                         ret |-> ret,
                         fit |-> FitSeen(ret.stages, fit)]
    /\ UNCHANGED <<program, fs, pc, data, loadError, appWidgets, guiWidgets>>

-----------------------------------------------------------------------------

Next ==
    \/ AppLoad
    \/ AppSelectStore
    \/ AppSelectDept
    \/ AppSetFuturePeriods
    \/ AppSetSeasonalPeriods
    \/ AppGenerate
    \/ GuiLoad
    \/ GuiSelectStore
    \/ GuiSelectDept
    \/ GuiTypeWeeks
    \/ GuiRunForecast

Spec == Init /\ [][Next]_vars

-----------------------------------------------------------------------------
(* The request of the last handler, read off its outcome *)

IsApp == program = "app"
IsGui == program = "gui"

\* the request names a (store, dept) pair
NamesPair ==
    /\ outcome.called
    /\ IsGui => py_int(outcome.req.store_val).ok /\ py_int(outcome.req.dept_val).ok

ReqStore == IF IsGui THEN py_int(outcome.req.store_val).value ELSE outcome.req.store_id
ReqDept == IF IsGui THEN py_int(outcome.req.dept_val).value ELSE outcome.req.dept_id
ReqM == IF IsGui THEN outcome.ret.seasonal_periods ELSE outcome.req.seasonal_periods

\* the rows of the dataset for the requested pair, as positions in the dataset
KeyRows ==
    {i \in DOMAIN Get(data) :
        Get(data)[i].Store = ReqStore /\ Get(data)[i].Dept = ReqDept}

SundayOnOrAfter(day) == CHOOSE w \in day..(day + 6) : w % 7 = 0

FirstWeek == SundayOnOrAfter(SetMin({Get(data)[i].Date : i \in KeyRows}))
LastWeek == SundayOnOrAfter(SetMax({Get(data)[i].Date : i \in KeyRows}))

\* number of week buckets from the first observed week to the last
SpanWeeks == ((LastWeek - FirstWeek) \div 7) + 1

RECURSIVE SumAt(_)
SumAt(S) ==
    IF S = {} THEN 0
    ELSE LET i == CHOOSE j \in S : TRUE
         IN Get(data)[i].Weekly_Sales + SumAt(S \ {i})

Reached(stage) == \E i \in DOMAIN outcome.ret.stages : outcome.ret.stages[i] = stage

Required(m) == IF 2 * m >= m + 5 THEN 2 * m ELSE m + 5

-----------------------------------------------------------------------------
(* Claims *)

\* C1: in either entry point a Holt-Winters fit is attempted only when the
\* weekly series has at least max(2m, m+5) points for the seasonal period m
\* in use.  (run_forecast fits with m = 52 from 20 points on.)
C1_FitOnlyWithEnoughPoints ==
    (outcome.called /\ Reached("fit")) => SpanWeeks >= Required(ReqM)

\* C2: a request for a (store, dept) pair with no rows ends in the no-data
\* error for that pair: no series, no forecast, no table, and no fit.
C2_AbsentKeyIsNoData ==
    (NamesPair /\ KeyRows = {}) =>
        /\ ~Reached("fit")
        /\ IsApp => /\ outcome.ret.message
                         = [kind |-> "NoData", store_id |-> ReqStore,
                            dept_id |-> ReqDept]
                    /\ outcome.ret.ts = None
                    /\ outcome.ret.future_forecast = None
                    /\ outcome.ret.forecast_df = None
                    /\ outcome.display = "error"
        /\ IsGui => /\ outcome.ret.dialog = "No data"
                    /\ outcome.ret.future_forecast = None

C2_Witness ==
    /\ program = "app"
    /\ outcome.called
    /\ Get(data) # <<>>
    /\ KeyRows = {}
    /\ outcome.req.seasonal_periods = 1
    /\ outcome.req.future_periods = 2

\* C3: every result of generate_forecast is a complete success (series,
\* forecast and table all present) or an error with all three absent.
C3_AllOrNothing ==
    (outcome.called /\ IsApp) =>
        \/ /\ outcome.ret.message.kind = "Success"
           /\ outcome.ret.ts # None
           /\ outcome.ret.future_forecast # None
           /\ outcome.ret.forecast_df # None
           /\ outcome.display = "success"
        \/ /\ outcome.ret.message.kind \in {"NoData", "Insufficient", "FitError"}
           /\ outcome.ret.ts = None
           /\ outcome.ret.future_forecast = None
           /\ outcome.ret.forecast_df = None
           /\ outcome.display = "error"

C3_Witness ==
    /\ program = "app"
    /\ outcome.called
    /\ outcome.ret.message.kind = "Insufficient"
    /\ outcome.ret.message.have = 19

\* the request ended in a forecast being delivered
Succeeded ==
    /\ outcome.called
    /\ IF IsGui THEN outcome.ret.dialog = "plot"
       ELSE outcome.ret.message.kind = "Success"

ReqH ==
    IF IsGui THEN py_int(outcome.req.weeks_val).value ELSE outcome.req.future_periods

\* C4: a successful forecast of horizon h >= 1 has exactly h points, dated
\* 7 * k days after the last historical week for k = 1..h.
C4_ForecastDates ==
    (Succeeded /\ ReqH >= 1) =>
        LET hist == Get(outcome.ret.ts)
            fc == Get(outcome.ret.future_forecast)
        IN /\ Len(fc) = ReqH
           /\ hist[Len(hist)].Date = LastWeek
           /\ \A k \in 1..ReqH : fc[k] = LastWeek + 7 * k
           /\ IsApp => Len(Get(outcome.ret.forecast_df)) = ReqH

C4_Witness ==
    /\ program = "app"
    /\ Succeeded
    /\ ReqH = 2
    /\ Get(outcome.ret.future_forecast) = <<735, 742>>

\* C5: the weekly series has one entry per week bucket from the first
\* observed week to the last, none missing, each valued at the sum of the
\* Weekly_Sales of all rows of the pair dated within that week.
C5_WeeklySums ==
    (outcome.called /\ outcome.ret.ts # None) =>
        LET ts == Get(outcome.ret.ts)
        IN /\ Len(ts) = SpanWeeks
           /\ \A k \in DOMAIN ts :
                /\ ts[k].Date = FirstWeek + 7 * (k - 1)
                /\ ts[k].Weekly_Sales =
                     SumAt({i \in KeyRows :
                              /\ ts[k].Date - 7 < Get(data)[i].Date
                              /\ Get(data)[i].Date <= ts[k].Date})

\* a week holding two rows (a sales row the feature join duplicated), then
\* a run of empty weeks up to the last observed week
C5_Witness ==
    /\ program = "app"
    /\ outcome.called
    /\ outcome.ret.ts # None
    /\ Len(Get(outcome.ret.ts)) = 20
    /\ Get(outcome.ret.ts)[1] = [Date |-> 7, Weekly_Sales |-> 50]
    /\ Get(outcome.ret.ts)[2].Weekly_Sales = 0
    /\ Get(outcome.ret.ts)[20] = [Date |-> 140, Weekly_Sales |-> 10]
    /\ Cardinality(KeyRows) = 3

\* C6: the insufficient-data error reports required = max(2m, m+5) and
\* actual = n.  (generate_forecast reports 2m as the requirement.)
C6_InsufficientReportsRequired ==
    (outcome.called /\ IsApp /\ outcome.ret.message.kind = "Insufficient") =>
        /\ outcome.ret.message.need = Required(ReqM)
        /\ outcome.ret.message.have = SpanWeeks

\* C7: a request whose horizon is below 1 fails as an invalid parameter
\* before any filtering, fitting or forecasting, in both entry points.
\* run_forecast refuses such a weeks text itself; generate_forecast is only
\* ever given the slider's value, which is at least SliderMin.
C7_HorizonBelowOneRejected ==
    /\ (outcome.called /\ IsApp) => outcome.req.future_periods >= SliderMin
    /\ (outcome.called /\ IsApp /\ outcome.req.future_periods < 1) =>
          /\ outcome.ret.message.kind = "InvalidParameter"
          /\ outcome.ret.stages = <<>>
    /\ (outcome.called /\ IsGui /\ ~(py_int(outcome.req.weeks_val).ok
                                     /\ py_int(outcome.req.weeks_val).value >= 1)) =>
          /\ outcome.ret.dialog = "Input error"
          /\ outcome.ret.stages = <<>>

\* "-2" weeks asked of a pair whose series is long enough to be fitted
C7_Witness ==
    /\ IsGui
    /\ outcome.called
    /\ NamesPair
    /\ py_int(outcome.req.weeks_val).ok
    /\ py_int(outcome.req.weeks_val).value = 0 - 2
    /\ KeyRows # {}
    /\ SpanWeeks >= GuiMinPoints
    /\ outcome.ret.dialog = "Input error"
    /\ outcome.ret.future_forecast = None

\* the length the program itself requires before fitting
CodeMinPoints == IF IsGui THEN GuiMinPoints ELSE Required(ReqM)

\* C8: the stages of a request run in the order filter, resample, validate,
\* fit, forecast; a validation failure ends it before any fit, a failed
\* fit before any forecast.
C8_StageOrder ==
    outcome.called =>
        /\ \E n \in 0..Len(Stages) : outcome.ret.stages = SubSeq(Stages, 1, n)
        /\ (NamesPair /\ Reached("filter") /\ KeyRows = {}) => ~Reached("resample")
        /\ (NamesPair /\ Reached("validate") /\ SpanWeeks < CodeMinPoints)
              => ~Reached("fit")
        /\ Reached("fit") => outcome.fit \in FitOutcomes
        /\ Reached("forecast") => outcome.fit = "ok"
        /\ (Reached("fit") /\ outcome.fit = "raise") => ~Succeeded

C8_Witness ==
    /\ program = "app"
    /\ outcome.called
    /\ Reached("fit")
    /\ outcome.fit = "raise"
    /\ ~Reached("forecast")

\* C9: if any of the three tables cannot be read, loading fails and no
\* dataset, not even a partial one, becomes available; no request runs.
C9_NoPartialDataset ==
    (pc # "start" /\ ~AllReadable(fs)) =>
        /\ data = None
        /\ loadError # "none"
        /\ pc = "stopped"
        /\ ~outcome.called

C9_Witness ==
    /\ pc = "stopped"
    /\ program = "app"
    /\ fs.train.status = "ok"
    /\ fs.train.rows # <<>>
    /\ fs.features.status = "missing"

\* C10: in the desktop GUI the selected department always has a row for the
\* selected store (nothing is selected only when the dataset has no rows),
\* so run_forecast never reports "No rows for this Store/Dept combination".
C10_DeptBelongsToStore ==
    (IsGui /\ pc = "ready") =>
        /\ \/ /\ Get(data) = <<>>
              /\ store_combo = <<>>
              /\ dept_combo = <<>>
           \/ /\ py_int(store_combo).ok
              /\ py_int(dept_combo).ok
              /\ \E i \in DOMAIN Get(data) :
                    /\ Get(data)[i].Store = py_int(store_combo).value
                    /\ Get(data)[i].Dept = py_int(dept_combo).value
        /\ outcome.called => outcome.ret.dialog # "No data"

\* store 2 selected after the pre-selected store 1, which has another department
C10_Witness ==
    /\ IsGui
    /\ outcome.called
    /\ store_combo = py_str(2)
    /\ dept_combo = py_str(2)
    /\ \E i \in DOMAIN Get(data) : Get(data)[i].Store = 1 /\ Get(data)[i].Dept = 1
    /\ ~\E i \in DOMAIN Get(data) : Get(data)[i].Store = 1 /\ Get(data)[i].Dept = 2

====
